---------------------------- MODULE Spec2Model ----------------------------
(***************************************************************************)
(* State-machine model of the request handlers of src/main.py (signup,    *)
(* login, get_current_user, dashboard, list_blogs, get_blog, create_blog,  *)
(* contact, seed_content) over the three document collections and the     *)
(* in-memory TOKENS registry.                                              *)
(*                                                                         *)
(* Handlers run concurrently: every round trip to the document store and  *)
(* every write of TOKENS is one atomic step of the handler, and the steps *)
(* of different requests interleave freely.  The local computation that   *)
(* follows a round trip (hashing, schema construction, raising) belongs to *)
(* the step of that round trip.                                            *)
(*                                                                         *)
(* The module `database` (db, create_document, get_documents) is imported *)
(* by src/main.py but is not among the source files; it is modelled from  *)
(* section 4.3 of the specification (create: append with a fresh          *)
(* identifier, no uniqueness enforcement).                                 *)
(*                                                                         *)
(* Timestamps (created_at, published_at) are not modelled.  Random values *)
(* are explicit choices: the salt is drawn from GenSalts, the session     *)
(* token is a value not in use.                                            *)
(*                                                                         *)
(* Specifications:                                                         *)
(*   Spec        every handler, concurrent, on a core of the inputs        *)
(*   AuthSpec    signup, login, dashboard, concurrent, on all inputs       *)
(*   ContentSpec get_blog, create_blog, seed_content, concurrent           *)
(*   SeedSpec    seed_content as the only writer of blogpost, one request  *)
(*               at a time                                                 *)
(*   PublishSeedSpec  create_blog, seed_content and list_blogs, one        *)
(*               request at a time                                         *)
(*   StoredSpec  the credential handlers on a store that holds an Account  *)
(*               already, intact or with a damaged salt                    *)
(*   SessionSpec signup, login and dashboard with the two dictionary       *)
(*               operations of get_current_user as separate steps          *)
(*   HashSpec    hash_password called on its own                           *)
(***************************************************************************)
EXTENDS Integers, Sequences, FiniteSets, TLC

VARIABLES
    db,        \* TRUE iff the imported `db` handle is truthy (store configured)
    user,      \* collection "user": sequence of Account documents, insertion order
    blogpost,  \* collection "blogpost": sequence of BlogPost documents
    inquiry,   \* collection "inquiry": sequence of Inquiry documents
    TOKENS,    \* main.py:33, token -> [email, name]
    pc,        \* per request slot: where its handler stands
    local,     \* per request slot: the handler's local variables
    ev,        \* the step just taken: operation, request, and the response if it returned
    seed_calls \* history: how many seed_content calls have returned (counted up to MaxSeedCalls)

vars == <<db, user, blogpost, inquiry, TOKENS, pc, local, ev, seed_calls>>

-----------------------------------------------------------------------------
(* Bounds of the model *)

MaxUsers == 2
MaxTokens == 2
MaxBlogs == 3
MaxInquiries == 2
MaxSeedCalls == 2

\* request slots: how many handlers may be in flight at once
Procs == {"r1", "r2"}

\* Python's None
None == "None"

\* validated EmailStr values; the first two differ only in letter case
Emails == {"bob@x.com", "Bob@x.com", "amy@x.com"}
Names == {"Bob", "Amy"}
Passwords == {"pw1", "pw2"}
\* values secrets.token_hex(16) may return (lower-case hex)
GenSalts == {"a1", "b2"}

\* str.lower() on the model's emails: the case-insensitive identity of an email
Lower(e) == IF e = "Bob@x.com" THEN "bob@x.com" ELSE e

-----------------------------------------------------------------------------
(* Responses *)

NoOut == [kind |-> "none"]
\* raise HTTPException(status_code=..., detail=...)
HTTPException(status, detail) == [kind |-> "HTTPException", status |-> status, detail |-> detail]
\* an exception no handler catches: the framework answers 500
Unhandled(exc) == [kind |-> "Unhandled", status |-> 500, detail |-> exc]
Ok(body) == [kind |-> "ok", status |-> 200, body |-> body]

Event(op, at, req, out) == [op |-> op, at |-> at, req |-> req, out |-> out]

NoLocal == [none |-> TRUE]
NoDoc == [none |-> TRUE]

Min(S) == CHOOSE x \in S : \A y \in S : x <= y

-----------------------------------------------------------------------------
(* Credential manager *)

\* bytes.fromhex: two hex digits per byte, letter case ignored; ValueError otherwise
FromHex(salt) ==
    CASE salt = "" -> <<>>
      [] salt \in {"a1", "A1"} -> <<161>>
      [] salt \in {"b2", "B2"} -> <<178>>
      [] OTHER -> "ValueError"

\* hashlib.pbkdf2_hmac('sha256', password, salt_bytes, 120000).hex(): a digest
\* determined by, and (up to negligible collisions) determining, its two inputs
Pbkdf2Hex(password, saltBytes) == <<"pbkdf2-sha256-120000", password, saltBytes>>

\* main.py:25-29; `fresh` is the value secrets.token_hex(16) would return
hash_password(password, salt, fresh) ==
    LET s == IF salt \in {None, ""} THEN fresh ELSE salt IN
    IF FromHex(s) = "ValueError"
      THEN <<"ValueError", s>>
      ELSE <<Pbkdf2Hex(password, FromHex(s)), s>>

\* salts a caller may supply: hex strings (the empty one included, lower and upper
\* case) and one that is not hexadecimal; None is the default of the parameter
HexSalts == {"", "a1", "A1", "b2", "B2"}
SuppliedSalts == HexSalts \cup {"zz"}

-----------------------------------------------------------------------------
(* Document store *)

\* collection.find_one({key: val}): the first matching document, or None
find_one(coll, key, val) ==
    LET hits == {i \in 1..Len(coll) : coll[i][key] = val} IN
    IF hits = {} THEN NoDoc ELSE coll[Min(hits)]

\* the identifier the store assigns on insert, and its str() form
ObjectId(coll) == [oid |-> Len(coll) + 1]
StrId(oid) == oid.oid

\* create_document(collection, doc): append with a fresh _id
create_document(coll, doc) == Append(coll, [k \in DOMAIN doc \cup {"id"} |->
                                  IF k = "id" THEN ObjectId(coll) ELSE doc[k]])

\* schemas.py:19-30 (avatar_url = None, is_active = True, created_at = utcnow())
UserSchema(name, email, password_hash, salt) ==
    [name |-> name, email |-> email, password_hash |-> password_hash, salt |-> salt,
     is_active |-> TRUE]

-----------------------------------------------------------------------------
(* Session registry *)

\* a token generator that returns the same value on every call
token_urlsafe_fixed == "1"

\* secrets.token_urlsafe(24): 192 random bits, modelled as a value not yet in use
token_urlsafe == ToString(Cardinality(DOMAIN TOKENS) + 1)

\* TOKENS = {token: identity}: the registry replaced instead of extended
Issue_replacing(token, identity) == [t \in {token} |-> identity]

\* TOKENS[token] = identity
Issue(token, identity) ==
    [t \in DOMAIN TOKENS \cup {token} |-> IF t = token THEN identity ELSE TOKENS[t]]

\* get_current_user that never finds the token
get_current_user_guest(token) == NoDoc

\* main.py:138-141
get_current_user(token) ==
    IF token # None /\ token \in DOMAIN TOKENS THEN TOKENS[token] ELSE NoDoc

InFlight(pcs) == Cardinality({p \in Procs : pc[p] \in pcs})
UserRoom == Len(user) + InFlight({"signup_create"}) < MaxUsers
TokenRoom == Cardinality(DOMAIN TOKENS)
               + InFlight({"signup_create", "signup_issue", "login_issue"}) < MaxTokens

Goto(p, label, loc) ==
    /\ pc' = [pc EXCEPT ![p] = label]
    /\ local' = [local EXCEPT ![p] = loc]

Return(p) == Goto(p, "idle", NoLocal)

-----------------------------------------------------------------------------
(* POST /api/auth/signup, main.py:97-116 *)

\* each person signs up under their own name
OwnerName(email) == IF email = "bob@x.com" THEN "Bob" ELSE "Amy"
SignupRequests == {r \in [name : Names, email : Emails, password : Passwords] :
                     r.name = OwnerName(r.email)}

\* signup_find without the test of main.py:101-102
signup_find_unchecked(p, payload) ==
    /\ pc[p] = "idle"
    /\ UserRoom /\ TokenRoom
    /\ Goto(p, "signup_create", payload)
    /\ ev' = Event("signup", "find", payload, NoOut)
    /\ UNCHANGED <<db, seed_calls, user, blogpost, inquiry, TOKENS>>

\* main.py:100-102: look the email up, raise 400 if it is registered
signup_find(p, payload) ==
    /\ pc[p] = "idle"
    /\ LET existing == IF db THEN find_one(user, "email", payload.email) ELSE NoDoc IN
       IF existing # NoDoc
         THEN /\ Return(p)
              /\ ev' = Event("signup", "find", payload,
                             HTTPException(400, "Email already registered"))
         ELSE /\ UserRoom /\ TokenRoom
              /\ Goto(p, "signup_create", payload)
              /\ ev' = Event("signup", "find", payload, NoOut)
    /\ UNCHANGED <<db, seed_calls, user, blogpost, inquiry, TOKENS>>

\* signup going on to issue the token although the insert failed
signup_create_ignoring_failure(p, fresh) ==
    /\ pc[p] = "signup_create"
    /\ LET payload == local[p]
           hs == hash_password(payload.password, None, fresh)
           user_doc == UserSchema(payload.name, payload.email, hs[1], hs[2])
       IN /\ user' = IF db THEN create_document(user, user_doc) ELSE user
          /\ Goto(p, "signup_issue", payload)
          /\ ev' = Event("signup", "create", payload, NoOut)
    /\ UNCHANGED <<db, seed_calls, blogpost, inquiry, TOKENS>>

\* signup storing the Account over the first record that has its email, if there is one
signup_create_upsert(p, fresh) ==
    /\ pc[p] = "signup_create"
    /\ db
    /\ LET payload == local[p]
           hs == hash_password(payload.password, None, fresh)
           user_doc == UserSchema(payload.name, payload.email, hs[1], hs[2])
           hits == {i \in 1..Len(user) : user[i].email = payload.email}
       IN /\ user' = IF hits = {}
                       THEN create_document(user, user_doc)
                       ELSE [user EXCEPT ![Min(hits)] =
                               [k \in DOMAIN @ |-> IF k = "id" THEN @[k] ELSE user_doc[k]]]
          /\ Goto(p, "signup_issue", payload)
          /\ ev' = Event("signup", "create", payload, NoOut)
    /\ UNCHANGED <<db, seed_calls, blogpost, inquiry, TOKENS>>

\* main.py:103-110: hash with a fresh salt, insert the Account
signup_create(p, fresh) ==
    /\ pc[p] = "signup_create"
    /\ LET payload == local[p]
           hs == hash_password(payload.password, None, fresh)
           user_doc == UserSchema(payload.name, payload.email, hs[1], hs[2])
       IN IF db
            THEN /\ user' = create_document(user, user_doc)
                 /\ Goto(p, "signup_issue", payload)
                 /\ ev' = Event("signup", "create", payload, NoOut)
            ELSE /\ user' = user
                 /\ Return(p)
                 /\ ev' = Event("signup", "create", payload, Unhandled("StorageUnavailable"))
    /\ UNCHANGED <<db, seed_calls, blogpost, inquiry, TOKENS>>

\* main.py:111-116: issue the token and answer
signup_issue(p) ==
    /\ pc[p] = "signup_issue"
    /\ LET payload == local[p]
           token == token_urlsafe
       IN /\ TOKENS' = Issue(token, [email |-> payload.email, name |-> payload.name])
          /\ ev' = Event("signup", "issue", payload,
                         Ok([token |-> token, name |-> payload.name, email |-> payload.email]))
    /\ Return(p)
    /\ UNCHANGED <<db, seed_calls, user, blogpost, inquiry>>

-----------------------------------------------------------------------------
(* POST /api/auth/login, main.py:118-131 *)

LoginRequests == [email : Emails, password : Passwords]

\* main.py:122, answering with a status and message of its own
UnknownEmail_NotFound == HTTPException(404, "User not found")
\* main.py:121-122: no Account has the email
UnknownEmail == HTTPException(401, "Invalid credentials")
\* main.py:124-125: the re-derived hash differs from the stored one
WrongPassword == HTTPException(401, "Invalid credentials")

\* login issuing the token as soon as the Account is found, before the hash is compared
login_find_issue_first(p, payload, fresh) ==
    /\ pc[p] = "idle"
    /\ LET u == IF db THEN find_one(user, "email", payload.email) ELSE NoDoc
           computed_hash == hash_password(payload.password, u.salt, fresh)[1]
       IN IF u = NoDoc
            THEN /\ Return(p)
                 /\ TOKENS' = TOKENS
                 /\ ev' = Event("login", "find", payload, UnknownEmail)
            ELSE /\ TokenRoom
                 /\ TOKENS' = Issue(token_urlsafe, [email |-> u.email, name |-> u.name])
                 /\ Return(p)
                 /\ ev' = Event("login", "find", payload,
                                IF computed_hash # u.password_hash
                                  THEN WrongPassword
                                  ELSE Ok([token |-> token_urlsafe, name |-> u.name,
                                           email |-> u.email]))
    /\ UNCHANGED <<db, seed_calls, user, blogpost, inquiry>>

\* main.py:120-125: look the Account up, re-derive the hash with its salt, compare
login_find(p, payload, fresh) ==
    /\ pc[p] = "idle"
    /\ LET u == IF db THEN find_one(user, "email", payload.email) ELSE NoDoc
           computed_hash == hash_password(payload.password, u.salt, fresh)[1]
       IN IF u = NoDoc
            THEN /\ Return(p)
                 /\ ev' = Event("login", "find", payload, UnknownEmail)
            ELSE IF computed_hash = "ValueError"
            THEN /\ Return(p)
                 /\ ev' = Event("login", "find", payload, Unhandled("ValueError"))
            ELSE IF computed_hash # u.password_hash
            THEN /\ Return(p)
                 /\ ev' = Event("login", "find", payload, WrongPassword)
            ELSE /\ TokenRoom
                 /\ Goto(p, "login_issue", [email |-> u.email, name |-> u.name])
                 /\ ev' = Event("login", "find", payload, NoOut)
    /\ UNCHANGED <<db, seed_calls, user, blogpost, inquiry, TOKENS>>

\* main.py:126-131: issue the token and answer with the stored identity
login_issue(p) ==
    /\ pc[p] = "login_issue"
    /\ LET u == local[p]
           token == token_urlsafe
       IN /\ TOKENS' = Issue(token, [email |-> u.email, name |-> u.name])
          /\ ev' = Event("login", "issue", u,
                         Ok([token |-> token, name |-> u.name, email |-> u.email]))
    /\ Return(p)
    /\ UNCHANGED <<db, seed_calls, user, blogpost, inquiry>>

-----------------------------------------------------------------------------
(* GET /api/dashboard, main.py:146-167 *)

\* tokens a client may present: none, issued ones, and ones never issued
TokenInputs == {None} \cup {ToString(n) : n \in 1..MaxTokens}

\* main.py:148-150: resolve the token; an unknown token is a Guest, not a failure
dashboard_resolve(p, token) ==
    /\ pc[p] = "idle"
    /\ LET u == get_current_user(token)
           name == IF u # NoDoc THEN u.name ELSE "Guest"
           email == IF u # NoDoc THEN u.email ELSE None
       IN /\ Goto(p, "dashboard_counts", [name |-> name, email |-> email])
          /\ ev' = Event("dashboard", "resolve", [token |-> token],
                         [kind |-> "resolved", name |-> name, email |-> email])
    /\ UNCHANGED <<db, seed_calls, user, blogpost, inquiry, TOKENS>>

\* get_current_user as the two dictionary operations it performs, for the runs in
\* which issue and resolve interleave: main.py:139, `token and token in TOKENS`
dashboard_contains(p, token) ==
    /\ pc[p] = "idle"
    /\ IF token # None /\ token \in DOMAIN TOKENS
         THEN /\ Goto(p, "dashboard_getitem", [token |-> token])
              /\ ev' = Event("dashboard", "contains", [token |-> token], NoOut)
         ELSE /\ Goto(p, "dashboard_counts", [name |-> "Guest", email |-> None])
              /\ ev' = Event("dashboard", "resolve", [token |-> token],
                             [kind |-> "resolved", name |-> "Guest", email |-> None])
    /\ UNCHANGED <<db, seed_calls, user, blogpost, inquiry, TOKENS>>

\* main.py:140, `return TOKENS[token]` (KeyError if the key is gone), then main.py:149-150
dashboard_getitem(p) ==
    /\ pc[p] = "dashboard_getitem"
    /\ LET token == local[p].token IN
       IF token \in DOMAIN TOKENS
         THEN /\ Goto(p, "dashboard_counts",
                      [name |-> TOKENS[token].name, email |-> TOKENS[token].email])
              /\ ev' = Event("dashboard", "resolve", [token |-> token],
                             [kind |-> "resolved", name |-> TOKENS[token].name,
                              email |-> TOKENS[token].email])
         ELSE /\ Return(p)
              /\ ev' = Event("dashboard", "resolve", [token |-> token], Unhandled("KeyError"))
    /\ UNCHANGED <<db, seed_calls, user, blogpost, inquiry, TOKENS>>

\* main.py:152-167: the three count_documents calls (taken in one step) and the answer
dashboard_counts(p) ==
    /\ pc[p] = "dashboard_counts"
    /\ LET users_count == IF db THEN Len(user) ELSE 0
           posts_count == IF db THEN Len(blogpost) ELSE 0
           inquiries_count == IF db THEN Len(inquiry) ELSE 0
       IN ev' = Event("dashboard", "counts", local[p],
                      Ok([welcome |-> <<"Welcome, ", local[p].name>>,
                          Users |-> users_count, Articles |-> posts_count,
                          Inquiries |-> inquiries_count, YourEmail |-> local[p].email]))
    /\ Return(p)
    /\ UNCHANGED <<db, seed_calls, user, blogpost, inquiry, TOKENS>>

-----------------------------------------------------------------------------
(* Blog, main.py:172-206 *)

\* main.py:222-241
samples == <<
    [title |-> "Designing With Purpose", slug |-> "designing-with-purpose",
     excerpt |-> "Crafting interfaces that feel calm and intentional.",
     content |-> "# Designing With Purpose", author |-> "Flames Team",
     tags |-> "['design', 'ux']", cover_image |-> None],
    [title |-> "Subtle Motion, Big Impact", slug |-> "subtle-motion-big-impact",
     excerpt |-> "Using micro-interactions to guide attention.",
     content |-> "# Subtle Motion", author |-> "Flames Team",
     tags |-> "['motion', 'ui']", cover_image |-> None] >>

\* slugs a client publishes or asks for: a sample's and one of its own
Slugs == {samples[1].slug, "my-post"}

\* BlogCreate bodies, main.py:172-179; tags may be sent as null (Optional[List[str]]);
\* a list of tags is written as its literal
BlogRequests ==
    [title : {"T"}, slug : Slugs, excerpt : {None, "E"}, content : {"C"},
     author : {"A"}, tags : {None, "['t']"}, cover_image : {None}]

\* schemas.py:32-44: tags is List[str], so tags = None fails validation
\* (published_at = utcnow() is not modelled)
ValidationError == [error |-> "ValidationError"]
BlogPostSchema(d) ==
    IF d.tags = None
      THEN ValidationError
      ELSE [title |-> d.title, slug |-> d.slug, excerpt |-> d.excerpt, content |-> d.content,
            author |-> d.author, tags |-> d.tags, cover_image |-> d.cover_image]

\* update_one with {"$set": blog.model_dump(exclude_none=True)}: fields that
\* are None in the request are left as they were
update_one_exclude_none(coll, key, val, fields) ==
    LET hits == {i \in 1..Len(coll) : coll[i][key] = val} IN
    IF hits = {} THEN coll
    ELSE [coll EXCEPT ![Min(hits)] =
            [k \in DOMAIN @ \cup DOMAIN fields |->
                IF k \in DOMAIN fields /\ fields[k] # None THEN fields[k] ELSE @[k]]]

\* collection.update_one({key: val}, {"$set": fields}): the first match gets the
\* listed fields overwritten and keeps every other field
update_one(coll, key, val, fields) ==
    LET hits == {i \in 1..Len(coll) : coll[i][key] = val} IN
    IF hits = {} THEN coll
    ELSE [coll EXCEPT ![Min(hits)] =
            [k \in DOMAIN @ \cup DOMAIN fields |-> IF k \in DOMAIN fields THEN fields[k] ELSE @[k]]]

\* samples from the i-th on that blogpost does not hold yet
Missing(i) == Cardinality({j \in i..Len(samples) :
                             find_one(blogpost, "slug", samples[j].slug) = NoDoc})
\* documents this process may still insert into blogpost
PendingBlogs(q) ==
    CASE pc[q] = "blog_write" -> IF local[q].exists THEN 0 ELSE 1
      [] pc[q] = "seed_find" -> Missing(local[q].i)
      [] pc[q] = "seed_create" -> 1 + Missing(local[q].i + 1)
      [] OTHER -> 0
RECURSIVE SumPending(_)
SumPending(S) == IF S = {} THEN 0
                 ELSE LET q == CHOOSE x \in S : TRUE IN PendingBlogs(q) + SumPending(S \ {q})
BlogRoom(n) == Len(blogpost) + SumPending(Procs) + n <= MaxBlogs

\* it["id"] = str(it.pop("_id", ""))
Sanitize(doc) == [k \in DOMAIN doc |-> IF k = "id" THEN StrId(doc[k]) ELSE doc[k]]

\* main.py:182, `limit: int = 20`
DefaultLimit == 20
\* limit values of a request; a request without the parameter carries DefaultLimit
Limits == {-1, 0, 1, 2, DefaultLimit}

\* get_documents(collection, {}, limit): up to `limit` documents in insertion
\* order, a limit <= 0 standing for the default limit
get_documents(coll, limit) ==
    LET n == IF limit <= 0 THEN DefaultLimit ELSE limit IN
    SubSeq(coll, 1, IF n < Len(coll) THEN n ELSE Len(coll))

\* list_blogs cutting the result to `limit` itself: items[:max(limit, 0)]
list_blogs_own_slice(p, limit) ==
    /\ pc[p] = "idle"
    /\ LET items == get_documents(blogpost, limit)
           n == IF limit <= 0 THEN 0 ELSE IF limit < Len(items) THEN limit ELSE Len(items)
       IN ev' = Event("list_blogs", "find", [limit |-> limit],
                      IF db THEN Ok([items |-> [i \in 1..n |-> Sanitize(items[i])]])
                      ELSE Unhandled("StorageUnavailable"))
    /\ Return(p)
    /\ UNCHANGED <<db, seed_calls, user, blogpost, inquiry, TOKENS>>

\* GET /api/blogs, main.py:181-187
list_blogs(p, limit) ==
    /\ pc[p] = "idle"
    /\ LET items == get_documents(blogpost, limit) IN
       ev' = Event("list_blogs", "find", [limit |-> limit],
                   IF db THEN Ok([items |-> [i \in 1..Len(items) |-> Sanitize(items[i])]])
                   ELSE Unhandled("StorageUnavailable"))
    /\ Return(p)
    /\ UNCHANGED <<db, seed_calls, user, blogpost, inquiry, TOKENS>>

\* GET /api/blogs/{slug}, main.py:189-195
get_blog(p, slug) ==
    /\ pc[p] = "idle"
    /\ LET doc == IF db THEN find_one(blogpost, "slug", slug) ELSE NoDoc IN
       ev' = Event("get_blog", "find", [slug |-> slug],
                   IF doc = NoDoc THEN HTTPException(404, "Post not found")
                   ELSE Ok(Sanitize(doc)))
    /\ Return(p)
    /\ UNCHANGED <<db, seed_calls, user, blogpost, inquiry, TOKENS>>

\* main.py:200-201: look the slug up, then build the BlogPost
create_blog_find(p, payload) ==
    /\ pc[p] = "idle"
    /\ LET exists == IF db THEN find_one(blogpost, "slug", payload.slug) ELSE NoDoc
           blog == BlogPostSchema(payload)
       IN IF blog = ValidationError
            THEN /\ Return(p)
                 /\ ev' = Event("create_blog", "find", payload, Unhandled("ValidationError"))
            ELSE /\ exists = NoDoc => BlogRoom(1)
                 /\ Goto(p, "blog_write", [payload |-> payload, exists |-> exists # NoDoc])
                 /\ ev' = Event("create_blog", "find", payload, NoOut)
    /\ UNCHANGED <<db, seed_calls, user, blogpost, inquiry, TOKENS>>

\* main.py:202-206: update in place if the slug was found, insert otherwise
create_blog_write(p) ==
    /\ pc[p] = "blog_write"
    /\ LET payload == local[p].payload
           blog == BlogPostSchema(payload)
       IN IF local[p].exists
            THEN /\ blogpost' = update_one(blogpost, "slug", payload.slug, blog)
                 /\ ev' = Event("create_blog", "write", payload,
                                Ok([status |-> "updated", slug |-> payload.slug]))
            ELSE IF db
            THEN /\ blogpost' = create_document(blogpost, blog)
                 /\ ev' = Event("create_blog", "write", payload,
                                Ok([status |-> "created", id |-> StrId(ObjectId(blogpost))]))
            ELSE /\ blogpost' = blogpost
                 /\ ev' = Event("create_blog", "write", payload,
                                Unhandled("StorageUnavailable"))
    /\ Return(p)
    /\ UNCHANGED <<db, seed_calls, user, inquiry, TOKENS>>

-----------------------------------------------------------------------------
(* POST /api/contact, main.py:211-215 *)

ContactRequests == [name : {"Bob"}, email : Emails, message : {"hello"}]

\* schemas.py:46-55 (created_at = utcnow() is not modelled)
InquirySchema(d) == [name |-> d.name, email |-> d.email, message |-> d.message, status |-> "new"]

\* contact that stores an inquiry only if no identical one is stored
contact_unique(p, payload) ==
    /\ pc[p] = "idle"
    /\ db
    /\ Len(inquiry) < MaxInquiries
    /\ inquiry' = IF \E i \in 1..Len(inquiry) :
                        [k \in DOMAIN inquiry[i] \ {"id"} |-> inquiry[i][k]] = InquirySchema(payload)
                    THEN inquiry
                    ELSE create_document(inquiry, InquirySchema(payload))
    /\ ev' = Event("contact", "create", payload,
                   Ok([status |-> "received", id |-> StrId(ObjectId(inquiry))]))
    /\ Return(p)
    /\ UNCHANGED <<db, seed_calls, user, blogpost, TOKENS>>

\* main.py:212-215
contact(p, payload) ==
    /\ pc[p] = "idle"
    /\ IF db
         THEN /\ Len(inquiry) < MaxInquiries
              /\ inquiry' = create_document(inquiry, InquirySchema(payload))
              /\ ev' = Event("contact", "create", payload,
                             Ok([status |-> "received", id |-> StrId(ObjectId(inquiry))]))
         ELSE /\ inquiry' = inquiry
              /\ ev' = Event("contact", "create", payload, Unhandled("StorageUnavailable"))
    /\ Return(p)
    /\ UNCHANGED <<db, seed_calls, user, blogpost, TOKENS>>

-----------------------------------------------------------------------------
(* POST /api/seed, main.py:220-247 *)

\* seed_content counting every sample it has handled, created or not
seed_continue_counting_all(p, i, created) ==
    IF i < Len(samples)
      THEN /\ Goto(p, "seed_find", [i |-> i + 1, created |-> i])
           /\ ev' = Event("seed_content", "loop", [i |-> i], NoOut)
           /\ seed_calls' = seed_calls
      ELSE /\ Return(p)
           /\ ev' = Event("seed_content", "loop", [i |-> i],
                          Ok([status |-> "ok", created |-> i]))
           /\ seed_calls' = IF seed_calls < MaxSeedCalls THEN seed_calls + 1 ELSE seed_calls

\* after sample i has been handled: go on to the next one, or return the count
seed_continue(p, i, created) ==
    IF i < Len(samples)
      THEN /\ Goto(p, "seed_find", [i |-> i + 1, created |-> created])
           /\ ev' = Event("seed_content", "loop", [i |-> i], NoOut)
           /\ seed_calls' = seed_calls
      ELSE /\ Return(p)
           /\ ev' = Event("seed_content", "loop", [i |-> i],
                          Ok([status |-> "ok", created |-> created]))
           /\ seed_calls' = IF seed_calls < MaxSeedCalls THEN seed_calls + 1 ELSE seed_calls

\* main.py:244 looking the sample up under its title instead of its slug
seed_missing_by_title(i) == find_one(blogpost, "slug", samples[i].title) = NoDoc
\* main.py:244: not db["blogpost"].find_one({"slug": s["slug"]})
seed_missing(i) == find_one(blogpost, "slug", samples[i].slug) = NoDoc

\* main.py:242-244: the loop's find_one for sample i (the first one starts the request);
\* db["blogpost"] is not guarded, so db = None raises TypeError
seed_find(p) ==
    /\ pc[p] \in {"idle", "seed_find"}
    /\ LET i == IF pc[p] = "idle" THEN 1 ELSE local[p].i
           created == IF pc[p] = "idle" THEN 0 ELSE local[p].created
       IN IF ~db
            THEN /\ Return(p)
                 /\ ev' = Event("seed_content", "find", [i |-> i], Unhandled("TypeError"))
                 /\ seed_calls' = seed_calls
            ELSE /\ pc[p] = "idle" => BlogRoom(Missing(1))
                 /\ IF seed_missing(i)
                      THEN /\ Goto(p, "seed_create", [i |-> i, created |-> created])
                           /\ ev' = Event("seed_content", "find", [i |-> i], NoOut)
                           /\ seed_calls' = seed_calls
                      ELSE seed_continue(p, i, created)
    /\ UNCHANGED <<db, user, blogpost, inquiry, TOKENS>>

\* main.py:245-246: insert sample i and count it
seed_create(p) ==
    /\ pc[p] = "seed_create"
    /\ blogpost' = create_document(blogpost, BlogPostSchema(samples[local[p].i]))
    /\ seed_continue(p, local[p].i, local[p].created + 1)
    /\ UNCHANGED <<db, user, inquiry, TOKENS>>

-----------------------------------------------------------------------------

Init ==
    /\ db \in BOOLEAN
    /\ user = <<>>
    /\ blogpost = <<>>
    /\ inquiry = <<>>
    /\ TOKENS = <<>>
    /\ pc = [p \in Procs |-> "idle"]
    /\ local = [p \in Procs |-> NoLocal]
    /\ ev = Event("start", "start", NoLocal, NoOut)
    /\ seed_calls = 0

\* a core of the inputs, for the runs of the whole system: two signups, the
\* logins of the first, one post per slug, one inquiry
CoreSignups == {[name |-> "Bob", email |-> "bob@x.com", password |-> "pw1"],
                [name |-> "Amy", email |-> "Bob@x.com", password |-> "pw2"]}
CoreLogins == [email : {"bob@x.com"}, password : Passwords]
CoreSalts == {"a1"}
CoreTokens == {None, "1"}
CoreSlugs == {samples[1].slug}
CoreBlogs == {b \in BlogRequests : b.slug \in CoreSlugs /\ b.excerpt = "E"}
CoreContacts == {c \in ContactRequests : c.email = "bob@x.com"}
CoreLimits == {1}

\* every handler, running concurrently, on the core inputs
Next ==
    \/ \E p \in Procs, payload \in CoreSignups : signup_find(p, payload)
    \/ \E p \in Procs, fresh \in CoreSalts : signup_create(p, fresh)
    \/ \E p \in Procs : signup_issue(p)
    \/ \E p \in Procs, payload \in CoreLogins, fresh \in CoreSalts : login_find(p, payload, fresh)
    \/ \E p \in Procs : login_issue(p)
    \/ \E p \in Procs, token \in CoreTokens : dashboard_resolve(p, token)
    \/ \E p \in Procs : dashboard_counts(p)
    \/ \E p \in Procs, limit \in CoreLimits : list_blogs(p, limit)
    \/ \E p \in Procs, slug \in CoreSlugs : get_blog(p, slug)
    \/ \E p \in Procs, payload \in CoreBlogs : create_blog_find(p, payload)
    \/ \E p \in Procs : create_blog_write(p)
    \/ \E p \in Procs, payload \in CoreContacts : contact(p, payload)
    \/ \E p \in Procs : seed_find(p)
    \/ \E p \in Procs : seed_create(p)

Spec == Init /\ [][Next]_vars

\* the credential and session handlers alone, running concurrently, on all inputs
AuthNext ==
    \/ \E p \in Procs, payload \in SignupRequests : signup_find(p, payload)
    \/ \E p \in Procs, fresh \in GenSalts : signup_create(p, fresh)
    \/ \E p \in Procs : signup_issue(p)
    \/ \E p \in Procs, payload \in LoginRequests, fresh \in GenSalts : login_find(p, payload, fresh)
    \/ \E p \in Procs : login_issue(p)
    \/ \E p \in Procs, token \in TokenInputs : dashboard_resolve(p, token)
    \/ \E p \in Procs : dashboard_counts(p)

AuthSpec == Init /\ [][AuthNext]_vars

\* the blog handlers alone, running concurrently, on all inputs
ContentNext ==
    \/ \E p \in Procs, limit \in Limits : list_blogs(p, limit)
    \/ \E p \in Procs, slug \in Slugs : get_blog(p, slug)
    \/ \E p \in Procs, payload \in BlogRequests : create_blog_find(p, payload)
    \/ \E p \in Procs : create_blog_write(p)
    \/ \E p \in Procs : seed_find(p)
    \/ \E p \in Procs : seed_create(p)

ContentSpec == Init /\ [][ContentNext]_vars

\* seed_content called again and again, each call after the last has returned, with
\* nothing else writing blogpost: between the calls clients read posts, send
\* inquiries and open the dashboard
Solo(p) == \A q \in Procs \ {p} : pc[q] = "idle"
SeedNext ==
    \/ \E p \in Procs : Solo(p) /\ seed_find(p)
    \/ \E p \in Procs : seed_create(p)
    \/ \E p \in Procs, slug \in Slugs \cup {samples[2].slug} : Solo(p) /\ get_blog(p, slug)
    \/ \E p \in Procs, payload \in ContactRequests : Solo(p) /\ contact(p, payload)
    \/ \E p \in Procs, token \in CoreTokens : Solo(p) /\ dashboard_resolve(p, token)
    \/ \E p \in Procs : dashboard_counts(p)

SeedSpec == Init /\ [][SeedNext]_vars

\* The user collection outlives the process (main.py:31-32: only the tokens are
\* ephemeral), and login reads its documents with .get (main.py:123-124, 129): the
\* documents a process finds in the store need not be ones its own signup wrote.
\* A stored Account of bob@x.com, password pw1: intact, or with its salt field
\* missing (user.get("salt") is None), empty, or not hexadecimal; the digest of a
\* damaged record was derived with a salt the record no longer holds.
MalformedSalts == {None, "", "zz"}
StoredAccounts ==
    {[name |-> "Bob", email |-> "bob@x.com", is_active |-> TRUE, id |-> [oid |-> 1],
      salt |-> "a1", password_hash |-> Pbkdf2Hex("pw1", FromHex("a1"))]}
    \cup {[name |-> "Bob", email |-> "bob@x.com", is_active |-> TRUE, id |-> [oid |-> 1],
            salt |-> s, password_hash |-> Pbkdf2Hex("pw1", <<195>>)] : s \in MalformedSalts}

\* a process started on a store that holds one Account already
StoredInit ==
    /\ db = TRUE
    /\ user \in {<<a>> : a \in StoredAccounts}
    /\ blogpost = <<>>
    /\ inquiry = <<>>
    /\ TOKENS = <<>>
    /\ pc = [p \in Procs |-> "idle"]
    /\ local = [p \in Procs |-> NoLocal]
    /\ ev = Event("start", "start", NoLocal, NoOut)
    /\ seed_calls = 0

\* the credential and session handlers on that store
StoredNext ==
    \/ \E p \in Procs, payload \in SignupRequests : signup_find(p, payload)
    \/ \E p \in Procs, fresh \in GenSalts : signup_create(p, fresh)
    \/ \E p \in Procs : signup_issue(p)
    \/ \E p \in Procs, payload \in CoreLogins, fresh \in GenSalts : login_find(p, payload, fresh)
    \/ \E p \in Procs : login_issue(p)
    \/ \E p \in Procs, token \in CoreTokens : dashboard_resolve(p, token)
    \/ \E p \in Procs : dashboard_counts(p)

StoredSpec == StoredInit /\ [][StoredNext]_vars

\* issue (signup, login) and resolve interleaving on TOKENS, each dictionary
\* operation a step of its own
SessionNext ==
    \/ \E p \in Procs, payload \in CoreSignups : signup_find(p, payload)
    \/ \E p \in Procs, fresh \in CoreSalts : signup_create(p, fresh)
    \/ \E p \in Procs : signup_issue(p)
    \/ \E p \in Procs, payload \in CoreLogins, fresh \in CoreSalts : login_find(p, payload, fresh)
    \/ \E p \in Procs : login_issue(p)
    \/ \E p \in Procs, token \in TokenInputs : dashboard_contains(p, token)
    \/ \E p \in Procs : dashboard_getitem(p)
    \/ \E p \in Procs : dashboard_counts(p)

SessionSpec == Init /\ [][SessionNext]_vars

\* hash_password called on its own: each slot keeps the arguments and the result
\* of its latest call
hash_password_call(p, password, salt, fresh) ==
    /\ pc[p] = "idle"
    /\ local' = [local EXCEPT ![p] = [password |-> password, salt |-> salt,
                                     result |-> hash_password(password, salt, fresh)]]
    /\ ev' = Event("hash_password", "call", [password |-> password, salt |-> salt],
                   Ok(hash_password(password, salt, fresh)))
    /\ UNCHANGED <<db, seed_calls, user, blogpost, inquiry, TOKENS, pc>>

HashNext ==
    \E p \in Procs, password \in Passwords, salt \in SuppliedSalts \cup {None}, fresh \in GenSalts :
        hash_password_call(p, password, salt, fresh)

HashSpec == Init /\ [][HashNext]_vars

\* publishing and seeding one request at a time: a seed call finds whatever the
\* earlier create_blog and seed_content calls left in blogpost
PublishSeedNext ==
    \/ \E p \in Procs, payload \in BlogRequests : Solo(p) /\ create_blog_find(p, payload)
    \/ \E p \in Procs : create_blog_write(p)
    \/ \E p \in Procs : Solo(p) /\ seed_find(p)
    \/ \E p \in Procs : seed_create(p)
    \/ \E p \in Procs, limit \in Limits : Solo(p) /\ list_blogs(p, limit)

PublishSeedSpec == Init /\ [][PublishSeedNext]_vars

-----------------------------------------------------------------------------
(* Properties *)

Registered(email) == \E i \in 1..Len(user) : user[i].email = email
HasSlug(coll, slug) == \E i \in 1..Len(coll) : coll[i].slug = slug

\* C1: no two Account records have the same email, emails compared without
\* regard to letter case, in every state reachable by concurrent signups.
C1_UniqueEmail ==
    \A i, j \in 1..Len(user) : i # j => Lower(user[i].email) # Lower(user[j].email)

\* C2: no two records of blogpost have the same slug, in every state reachable
\* by concurrent create_blog and seed_content requests.
C2_UniqueSlug ==
    \A i, j \in 1..Len(blogpost) : i # j => blogpost[i].slug # blogpost[j].slug

\* C3: a signup that looks up an email some Account already has answers
\* 400 "Email already registered" and leaves the user collection as it was.
C3_SignupConflict ==
    [][(ev'.op = "signup" /\ ev'.at = "find" /\ Registered(ev'.req.email))
         => (/\ ev'.out = HTTPException(400, "Email already registered")
             /\ Len(user') = Len(user)
             /\ user' = user)]_vars

\* a signup was refused for an email that is registered
C3_Witness ==
    /\ ev.op = "signup" /\ ev.out.kind = "HTTPException" /\ ev.out.status = 400
    /\ Registered(ev.req.email)

AuthenticationFailure == HTTPException(401, "Invalid credentials")
LoginAnswered == ev.op = "login" /\ ev.at = "find" /\ ev.out.kind # "none"
LoginUnknownEmail == LoginAnswered /\ ~Registered(ev.req.email)
LoginWrongPassword ==
    /\ LoginAnswered
    /\ \E i \in 1..Len(user) :
          /\ user[i].email = ev.req.email
          /\ user[i].password_hash # Pbkdf2Hex(ev.req.password, FromHex(user[i].salt))

\* C4: a login refused for a wrong password and a login refused for an unknown
\* email get one and the same answer: kind, status and message are equal.
C4_LoginFailuresIdentical ==
    (LoginUnknownEmail \/ LoginWrongPassword) => ev.out = AuthenticationFailure

\* a login for a registered email was refused for its password
C4_Witness == LoginWrongPassword /\ ev.out.status = 401

SeedReturned == ev.op = "seed_content" /\ ev.out.kind = "ok"

\* C5: with seed_content the only writer of blogpost, called again and again from
\* an empty collection, the first call returns created = len(samples), every later
\* call returns created = 0, and once a call has returned the collection holds
\* exactly len(samples) records with pairwise different slugs.
C5_SeedIdempotent ==
    /\ SeedReturned =>
          ev.out.body.created = IF seed_calls = 1 THEN Len(samples) ELSE 0
    /\ seed_calls >= 1 =>
          /\ Len(blogpost) = Len(samples)
          /\ \A i, j \in 1..Len(blogpost) : i # j => blogpost[i].slug # blogpost[j].slug

\* a second seed_content call has returned
C5_Witness == SeedReturned /\ seed_calls = 2 /\ ev.out.body.created = 0

\* C6: (with the store available) a create_blog call that answers for a slug some
\* record has leaves the number of records and every record's slug unchanged; one
\* that answers for a slug no record has adds exactly one record and reports
\* "created".
C6_PublishFrame ==
    [][(db /\ ev'.op = "create_blog" /\ ev'.out.kind # "none")
         => IF HasSlug(blogpost, ev'.req.slug)
              THEN /\ Len(blogpost') = Len(blogpost)
                   /\ \A i \in 1..Len(blogpost) : blogpost'[i].slug = blogpost[i].slug
              ELSE /\ Len(blogpost') = Len(blogpost) + 1
                   /\ ev'.out.kind = "ok"
                   /\ ev'.out.body.status = "created"]_vars

\* the content of a stored document: everything but the store's identifier
Content(doc) == [k \in DOMAIN doc \ {"id"} |-> doc[k]]

\* C7: when create_blog found a record with the slug (its `exists`), then after
\* its write the first record with that slug has exactly the supplied content,
\* under the identifier it had, and the call reports "updated".
C7_FullReplace ==
    [][\A p \in Procs :
         (pc[p] = "blog_write" /\ pc'[p] = "idle" /\ local[p].exists)
           => LET payload == local[p].payload IN
              /\ ev'.out = Ok([status |-> "updated", slug |-> payload.slug])
              /\ Len(blogpost') = Len(blogpost)
              /\ \E i \in 1..Len(blogpost') :
                    /\ blogpost'[i].slug = payload.slug
                    /\ \A j \in 1..(i - 1) : blogpost'[j].slug # payload.slug
                    /\ Content(blogpost'[i]) = payload
                    /\ blogpost'[i].id = blogpost[i].id]_vars

\* a post was updated by a request that carries no excerpt
C7_Witness ==
    /\ ev.op = "create_blog" /\ ev.out.kind = "ok" /\ ev.out.body.status = "updated"
    /\ ev.req.excerpt = None
    /\ \E i \in 1..Len(blogpost) : blogpost[i].slug = ev.req.slug /\ blogpost[i].excerpt = None

\* C8: a login passes the tests of main.py:121-125 if and only if some Account has
\* the given email and was signed up with the given password.
C8_LoginIffCredentials ==
    (ev.op = "login" /\ ev.at = "find")
      => (ev.out.kind = "none"
            <=> \E i \in 1..Len(user) :
                   /\ user[i].email = ev.req.email
                   /\ user[i].password_hash
                        = Pbkdf2Hex(ev.req.password, FromHex(user[i].salt)))

\* C9: the token a successful signup or login returns resolves to the identity
\* (email, name) in that answer; dashboard resolves an issued token to the identity
\* the registry holds for it, and a token that is absent or was never issued to
\* no identity, for which it answers as Guest with status 200.
C9_Resolve ==
    /\ (ev.op \in {"signup", "login"} /\ ev.out.kind = "ok")
         => /\ get_current_user(ev.out.body.token)
                 = [email |-> ev.out.body.email, name |-> ev.out.body.name]
            /\ ev.out.body.email = ev.req.email
            /\ ev.out.body.name = ev.req.name
    /\ (ev.op = "dashboard" /\ ev.at = "resolve")
         => IF ev.req.token # None /\ ev.req.token \in DOMAIN TOKENS
              THEN /\ ev.out.name = TOKENS[ev.req.token].name
                   /\ ev.out.email = TOKENS[ev.req.token].email
              ELSE /\ ev.out.name = "Guest"
                   /\ ev.out.email = None
    /\ (ev.op = "dashboard" /\ ev.at = "counts")
         => /\ ev.out.kind = "ok"
            /\ ev.out.body.welcome = <<"Welcome, ", ev.req.name>>
            /\ ev.out.body.YourEmail = ev.req.email

\* dashboard resolved the token of the second session to its identity
C9_Witness ==
    /\ ev.op = "dashboard" /\ ev.at = "resolve"
    /\ ev.req.token = "2" /\ ev.req.token \in DOMAIN TOKENS
    /\ ev.out.name # "Guest"

\* C10: no step of any handler removes a token from TOKENS or changes the
\* identity it maps to.
C10_TokensPersist ==
    [][\A t \in DOMAIN TOKENS : t \in DOMAIN TOKENS' /\ TOKENS'[t] = TOKENS[t]]_vars

\* with two sessions issued, posts seeded and an inquiry stored, a post was written
C10_Witness ==
    /\ Cardinality(DOMAIN TOKENS) = 2
    /\ seed_calls >= 1
    /\ Len(inquiry) >= 1
    /\ ev.op = "create_blog" /\ ev.at = "write"

\* login answered for an email whose Account (the one find_one returns) has a
\* malformed salt
LoginMalformedSalt ==
    /\ LoginAnswered
    /\ Registered(ev.req.email)
    /\ find_one(user, "email", ev.req.email).salt \in MalformedSalts

\* C11: a login against a stored Account whose salt is missing, empty or not
\* hexadecimal is answered with an outcome other than the AuthenticationFailure
\* a wrong password gets.
C11_IntegrityError == LoginMalformedSalt => ev.out # AuthenticationFailure

\* operations that read or write the document store
StoreOps == {"signup", "login", "get_blog", "dashboard", "create_blog", "seed_content"}
\* the step just taken answered a request (with a result or an error)
Answered == ev.out.kind \in {"ok", "HTTPException", "Unhandled"}

\* C12: with the document store unavailable (db is None), every answer of signup,
\* login, get_blog, dashboard, create_blog and seed_content is an error raised for
\* the store; none is a result (such as zero counts), 404 "Post not found" or
\* 401 "Invalid credentials".
C12_StorageUnavailable ==
    (~db /\ ev.op \in StoreOps /\ Answered) => ev.out.kind = "Unhandled"

\* C13: a step that answers a request with an error leaves TOKENS and the three
\* collections as they were; 400, 401 and 404 are raised by the first step of their
\* request (the slot is idle before and after), so the whole request wrote nothing
\* and issued no token.
C13_ErrorsLeaveState ==
    [][ev'.out.kind \in {"HTTPException", "Unhandled"}
         => /\ UNCHANGED <<user, blogpost, inquiry, TOKENS>>
            /\ ev'.out.kind = "HTTPException" => pc' = pc]_vars

\* a login was refused while a session and a post exist
C13_Witness ==
    /\ ev.op = "login" /\ ev.out = AuthenticationFailure
    /\ Cardinality(DOMAIN TOKENS) >= 1
    /\ Len(user) >= 1 /\ Len(blogpost) >= 1

\* C14: with issue and resolve steps interleaving, every step keeps each entry of
\* TOKENS as it is; an issue adds exactly one entry, under a token that was not in
\* use, holding the identity it answers with; a resolve yields Guest or the
\* complete (email, name) entry stored under exactly the token presented.
C14_TokenMap ==
    [][/\ \A t \in DOMAIN TOKENS : t \in DOMAIN TOKENS' /\ TOKENS'[t] = TOKENS[t]
       /\ (ev'.op \in {"signup", "login"} /\ ev'.out.kind = "ok")
            => /\ ev'.out.body.token \notin DOMAIN TOKENS
               /\ DOMAIN TOKENS' = DOMAIN TOKENS \cup {ev'.out.body.token}
               /\ TOKENS'[ev'.out.body.token]
                    = [email |-> ev'.out.body.email, name |-> ev'.out.body.name]
       /\ (ev'.op = "dashboard" /\ ev'.at = "resolve")
            => /\ ev'.out.kind = "resolved"
               /\ \/ ev'.out.name = "Guest" /\ ev'.out.email = None
                  \/ /\ ev'.req.token \in DOMAIN TOKENS
                     /\ ev'.out.name = TOKENS[ev'.req.token].name
                     /\ ev'.out.email = TOKENS[ev'.req.token].email
                     /\ ev'.out.name \in Names /\ ev'.out.email \in Emails]_vars

\* a token was resolved to its identity while another request is about to issue
C14_Witness ==
    /\ ev.op = "dashboard" /\ ev.at = "resolve" /\ ev.out.kind = "resolved"
    /\ ev.out.name # "Guest"
    /\ \E q \in Procs : pc[q] \in {"signup_issue", "login_issue"}

\* C15: for every password and every supplied hex-encoded salt, hash_password
\* returns the supplied salt unchanged (a fresh salt is generated only when none is
\* supplied), and two calls with the same password and salt return the same
\* digest and salt.
C15_Deterministic ==
    \A p, q \in Procs :
        (/\ local[p] # NoLocal /\ local[q] # NoLocal
         /\ local[p].salt \in HexSalts
         /\ local[q].salt = local[p].salt /\ local[q].password = local[p].password)
          => /\ local[p].result[2] = local[p].salt
             /\ local[p].result = local[q].result

C17_ContactAppends ==
    [][(db /\ ev'.op = "contact")
         => /\ ev'.out.kind = "ok"
            /\ Len(inquiry') = Len(inquiry) + 1
            /\ \A i \in 1..Len(inquiry) :
                  inquiry'[i] = inquiry[i] /\ inquiry'[i].id # inquiry'[Len(inquiry')].id
            /\ Content(inquiry'[Len(inquiry')])
                 = [name |-> ev'.req.name, email |-> ev'.req.email,
                    message |-> ev'.req.message, status |-> "new"]
            /\ UNCHANGED <<user, blogpost, TOKENS>>]_vars

\* the same submission was stored a second time
C17_Witness ==
    /\ ev.op = "contact" /\ ev.out.kind = "ok"
    /\ Len(inquiry) = 2
    /\ Content(inquiry[1]) = Content(inquiry[2])

C19_AccountsOnlyGrow ==
    [][/\ Len(user') >= Len(user)
       /\ \A i \in 1..Len(user) : user'[i] = user[i]
       /\ user' # user
            => /\ ev'.op = "signup" /\ ev'.at = "create"
               /\ Len(user') = Len(user) + 1
       /\ (ev'.op = "signup" /\ ev'.at = "create" /\ ev'.out.kind = "none")
            => Len(user') = Len(user) + 1
       /\ (ev'.op = "signup" /\ ev'.out.kind = "ok")
            => /\ user' = user
               /\ \E p \in Procs : pc[p] = "signup_issue" /\ pc'[p] = "idle"
               /\ \E i \in 1..Len(user) :
                     user[i].email = ev'.req.email /\ user[i].name = ev'.req.name]_vars

\* a second signup succeeded, with posts and an inquiry stored
C19_Witness ==
    /\ ev.op = "signup" /\ ev.out.kind = "ok"
    /\ Len(user) = 2
    /\ Len(blogpost) >= 1 /\ Len(inquiry) >= 1

\* C20: in every reachable state, every entry of TOKENS holds an email that some
\* record of the user collection has.
C20_SessionsHaveAccounts ==
    \A t \in DOMAIN TOKENS : Registered(TOKENS[t].email)

\* a login issued the second session
C20_Witness ==
    /\ ev.op = "login" /\ ev.out.kind = "ok"
    /\ Cardinality(DOMAIN TOKENS) = 2
    /\ Len(user) >= 1

=============================================================================
